---- MODULE Spec2Model ----
(***************************************************************************)
(* Model of the Books page component (src/src/pages/Books.js): session     *)
(* bootstrap, realtime catalog subscription, purchase recording and the    *)
(* single-slot notification modal.                                         *)
(*                                                                         *)
(* A React state setter setX(v) is modelled as the assignment x' = v, also  *)
(* when a pending write or timer calls it after the component's teardown.  *)
(* The effect of lines 80-100 depends on [db, isAuthReady]; it is run as   *)
(* part of every action that changes one of them (BooksEffect).            *)
(* A message string is modelled as the sequence of its pieces, so that     *)
(* template literals are concatenations and "contains" is decidable.       *)
(* purchaseDate (line 138) is not modelled: no property here reads it.     *)
(***************************************************************************)
EXTENDS Integers, Sequences, FiniteSets, TLC

VARIABLES
    firebaseConfig,    \* "empty" | "present"            (line 16)
    initialAuthToken,  \* NULL | a token                 (line 17)
    phase,             \* "init" | "mounted" | "unmounted"
    books,             \* useState(initialBooks)         (line 25)
    auth,              \* useState(null): handle set?    (line 26)
    db,                \* useState(null): handle set?    (line 27)
    userId,            \* useState(null)                 (line 28)
    isAuthReady,       \* useState(false)                (line 29)
    loading,           \* useState(true)                 (line 30)
    modal,             \* useState({visible,message,isSuccess}) (line 31)
    authListener,      \* onAuthStateChanged registered and not unsubscribed
    signIn,            \* attemptSignIn: [kind, state, attempts made]
    sub,               \* catalog subscription: "none" | "open" | "errored" | "closed"
    subLast,           \* most recent subscription event: "none" | "snapshot" | "error"
    invs,              \* the handlePurchase invocations so far, in order
    records,           \* documents persisted under .../purchases
    location           \* current route

vars == <<firebaseConfig, initialAuthToken, phase, books, auth, db, userId,
          isAuthReady, loading, modal, authListener, signIn, sub, subLast,
          invs, records, location>>

----------------------------------------------------------------------------
(* Bounds *)
MaxPurchases == 2
MaxDocs == 2

(* Values *)
NULL == "null"
Uids == {"u1"}
Tokens == {"tok"}
ErrMsgs == {"permission-denied", "unavailable"}
Controls == {"close", "ok"}

\* line 19-21
initialBooks ==
    << [id |-> "mern_stack_guide", title |-> "MERN STACK",
        description |-> "A complete MERN guide...", price |-> 999] >>

\* line 31
EmptyModal == [visible |-> FALSE, message |-> <<>>, isSuccess |-> FALSE]

\* line 109
LoginMsg == << "You must be logged in to make a purchase. Redirecting you to register..." >>
\* line 120
MissingIdMsg == << "Ebook ID is missing", "." >>
\* line 125
DbFailMsg == << "Database connection failed", ". Cannot process purchase." >>
\* line 144
SuccessMsg(bookTitle) == << "Successfully purchased \"", bookTitle, "\"! Check your library." >>
\* line 150
FailMsg(errMessage) == << "Purchase failed: ", errMessage >>

Contains(msg, piece) == \E k \in DOMAIN msg : msg[k] = piece

\* JavaScript truthiness of the values that occur here: null and "" are falsy
Falsy(v) == v = NULL \/ v = ""

----------------------------------------------------------------------------
(* Catalog documents as the subscription delivers them *)

\* the documents a snapshot may deliver: a plain one, one whose field
\* contents carry an "id" naming the other document, and one whose field
\* contents carry an empty "id"
Docs ==
    { [id |-> "b1", data |-> [title |-> "T1", price |-> 10]],
      [id |-> "b2", data |-> [title |-> "T1", price |-> 10, id |-> "b1"]],
      [id |-> "b2", data |-> [title |-> "T2", price |-> 20, id |-> ""]] }

RECURSIVE SeqsUpTo(_, _)
SeqsUpTo(S, n) ==
    IF n = 0 THEN { <<>> }
    ELSE LET shorter == SeqsUpTo(S, n - 1)
         IN  shorter \cup { Append(s, x) : s \in { t \in shorter : Len(t) = n - 1 }, x \in S }

\* snapshots: document ids are pairwise distinct within a collection
Snapshots ==
    { s \in SeqsUpTo(Docs, MaxDocs) :
        \A i, j \in DOMAIN s : i # j => s[i].id # s[j].id }

\* lines 88-91 written the other way round: the document id wins
EntryOf_idLast(d) ==
    [f \in {"id"} \cup DOMAIN d.data |-> IF f = "id" THEN d.id ELSE d.data[f]]

\* lines 88-91: { id: doc.id, ...doc.data() } - later spread keys overwrite id
EntryOf(d) ==
    [f \in {"id"} \cup DOMAIN d.data |->
        IF f \in DOMAIN d.data THEN d.data[f] ELSE d.id]

\* line 88: snapshot.docs.map(...)
MapDocs(s) == [k \in DOMAIN s |-> EntryOf(s[k])]

----------------------------------------------------------------------------
Init ==
    /\ firebaseConfig \in {"empty", "present"}
    /\ initialAuthToken \in {NULL} \cup Tokens
    /\ phase = "init"
    /\ books = initialBooks
    /\ auth = FALSE
    /\ db = FALSE
    /\ userId = NULL
    /\ isAuthReady = FALSE
    /\ loading = TRUE
    /\ modal = EmptyModal
    /\ authListener = FALSE
    /\ signIn = [kind |-> "none", state |-> "none", attempts |-> 0]
    /\ sub = "none"
    /\ subLast = "none"
    /\ invs = <<>>
    /\ records = {}
    /\ location = "books"

\* the books effect without the guard of line 81
BooksEffect_noGuard(first, dbOld, readyOld, dbNew, readyNew, subOld) ==
    IF ~first /\ dbOld = dbNew /\ readyOld = readyNew THEN subOld ELSE "open"

\* lines 80-100: the books effect, run when db or isAuthReady changed (or on
\* first mount); the previous run's cleanup (line 99) unsubscribes first
BooksEffect(first, dbOld, readyOld, dbNew, readyNew, subOld) ==
    IF ~first /\ dbOld = dbNew /\ readyOld = readyNew THEN subOld
    ELSE IF ~dbNew \/ ~readyNew
         THEN (IF subOld = "open" THEN "closed" ELSE subOld)
         ELSE "open"

\* lines 53-58: the credential token, when there is one, is preferred
SignInKind(token) == IF token # NULL THEN "token" ELSE "anonymous"

\* lines 35-77 without the early return of line 40
Mount_noReturn ==
    /\ phase = "init"
    /\ phase' = "mounted"
    /\ isAuthReady' = (firebaseConfig = "empty")
    /\ loading' = (firebaseConfig # "empty")
    /\ db' = TRUE
    /\ auth' = TRUE
    /\ authListener' = TRUE
    /\ signIn' = [kind |-> SignInKind(initialAuthToken), state |-> "pending",
                  attempts |-> 1]
    /\ sub' = BooksEffect(TRUE, db, isAuthReady, db', isAuthReady', sub)
    /\ UNCHANGED <<firebaseConfig, initialAuthToken, books, userId, modal,
                   subLast, invs, records, location>>

\* lines 35-77 without setDb (line 47)
Mount_noDb ==
    /\ phase = "init"
    /\ phase' = "mounted"
    /\ IF firebaseConfig = "empty"
       THEN /\ isAuthReady' = TRUE
            /\ loading' = FALSE
            /\ UNCHANGED <<auth, authListener, signIn>>
       ELSE /\ auth' = TRUE
            /\ authListener' = TRUE
            /\ signIn' = [kind |-> SignInKind(initialAuthToken),
                          state |-> "pending", attempts |-> 1]
            /\ UNCHANGED <<isAuthReady, loading>>
    /\ sub' = BooksEffect(TRUE, db, isAuthReady, db, isAuthReady', sub)
    /\ UNCHANGED <<firebaseConfig, initialAuthToken, books, db, userId, modal,
                   subLast, invs, records, location>>

\* lines 35-77: the mount effect (and the first runs of the books effect)
Mount ==
    /\ phase = "init"
    /\ phase' = "mounted"
    /\ IF firebaseConfig = "empty"
       THEN /\ isAuthReady' = TRUE                         \* line 38
            /\ loading' = FALSE                            \* line 39
            /\ UNCHANGED <<db, auth, authListener, signIn>>
       ELSE /\ db' = TRUE                                  \* line 47
            /\ auth' = TRUE                                \* line 48
            /\ authListener' = TRUE                        \* line 65
            /\ signIn' = [kind |-> SignInKind(initialAuthToken),  \* line 75
                          state |-> "pending", attempts |-> 1]
            /\ UNCHANGED <<isAuthReady, loading>>
    /\ sub' = BooksEffect(TRUE, db, isAuthReady, db', isAuthReady', sub)
    /\ UNCHANGED <<firebaseConfig, initialAuthToken, books, userId, modal,
                   subLast, invs, records, location>>

\* lines 54/57 resolve
SignInOk ==
    /\ signIn.state = "pending"
    /\ signIn' = [signIn EXCEPT !.state = "ok"]
    /\ UNCHANGED <<firebaseConfig, initialAuthToken, phase, books, auth, db,
                   userId, isAuthReady, loading, modal, authListener, sub,
                   subLast, invs, records, location>>

\* a catch block that falls back to an anonymous attempt
SignInFail_fallback ==
    /\ signIn.state = "pending"
    /\ signIn' = IF signIn.kind = "token"
                 THEN [kind |-> "anonymous", state |-> "pending",
                       attempts |-> signIn.attempts + 1]
                 ELSE [signIn EXCEPT !.state = "failed"]
    /\ UNCHANGED <<firebaseConfig, initialAuthToken, phase, books, auth, db,
                   userId, isAuthReady, loading, modal, authListener, sub,
                   subLast, invs, records, location>>

\* a catch block that also clears the identity
SignInFail_clears ==
    /\ signIn.state = "pending"
    /\ signIn' = [signIn EXCEPT !.state = "failed"]
    /\ userId' = NULL
    /\ UNCHANGED <<firebaseConfig, initialAuthToken, phase, books, auth, db,
                   isAuthReady, loading, modal, authListener, sub,
                   subLast, invs, records, location>>

\* lines 59-61: the rejection is logged, nothing else
SignInFail ==
    /\ signIn.state = "pending"
    /\ signIn' = [signIn EXCEPT !.state = "failed"]
    /\ UNCHANGED <<firebaseConfig, initialAuthToken, phase, books, auth, db,
                   userId, isAuthReady, loading, modal, authListener, sub,
                   subLast, invs, records, location>>

\* the identity-change callback without lines 71-72
AuthEvent_noReady(u) ==
    /\ authListener
    /\ userId' = u
    /\ UNCHANGED <<firebaseConfig, initialAuthToken, phase, books, auth, db,
                   isAuthReady, loading, modal, authListener, signIn, sub,
                   subLast, invs, records, location>>

\* lines 65-73: the identity-change callback; u is user.uid, or NULL for no user
AuthEvent(u) ==
    /\ authListener
    /\ userId' = u                                         \* lines 66-70
    /\ isAuthReady' = TRUE                                 \* line 71
    /\ loading' = FALSE                                    \* line 72
    /\ sub' = BooksEffect(FALSE, db, isAuthReady, db, TRUE, sub)
    /\ UNCHANGED <<firebaseConfig, initialAuthToken, phase, books, auth, db,
                   modal, authListener, signIn, subLast, invs, records, location>>

\* lines 87-92: the snapshot callback
Snapshot(s) ==
    /\ sub = "open"
    /\ books' = MapDocs(s)                                 \* line 92
    /\ subLast' = "snapshot"
    /\ UNCHANGED <<firebaseConfig, initialAuthToken, phase, auth, db, userId,
                   isAuthReady, loading, modal, authListener, signIn, sub,
                   invs, records, location>>

\* lines 93-97 without the fallback of line 96
SubError_keep ==
    /\ sub = "open"
    /\ sub' = "errored"
    /\ subLast' = "error"
    /\ UNCHANGED <<firebaseConfig, initialAuthToken, phase, books, auth, db,
                   userId, isAuthReady, loading, modal, authListener, signIn,
                   invs, records, location>>

\* lines 93-97: the subscription's error callback; an errored listener
\* receives no further events
SubError ==
    /\ sub = "open"
    /\ books' = initialBooks                               \* line 96
    /\ sub' = "errored"
    /\ subLast' = "error"
    /\ UNCHANGED <<firebaseConfig, initialAuthToken, phase, auth, db, userId,
                   isAuthReady, loading, modal, authListener, signIn, invs,
                   records, location>>

----------------------------------------------------------------------------
(* handlePurchase, lines 104-152 *)

\* the checks with the entry id tested before the identity
Validate_idFirst(uid, ebookId, dbAvail) ==
    IF Falsy(ebookId) THEN "RejInvalid"
    ELSE IF Falsy(uid) THEN "RejNoIdentity"
    ELSE IF ~dbAvail THEN "RejNoStorage"
    ELSE "Writing"

\* the checks without the identity test of line 105
Validate_noIdentity(uid, ebookId, dbAvail) ==
    IF Falsy(ebookId) THEN "RejInvalid"
    ELSE IF ~dbAvail THEN "RejNoStorage"
    ELSE "Writing"

\* the checks without the entry id test of line 119
Validate_noId(uid, ebookId, dbAvail) ==
    IF Falsy(uid) THEN "RejNoIdentity"
    ELSE IF ~dbAvail THEN "RejNoStorage"
    ELSE "Writing"

\* lines 105, 119, 124: the three guards in source order
Validate(uid, ebookId, dbAvail) ==
    IF Falsy(uid) THEN "RejNoIdentity"
    ELSE IF Falsy(ebookId) THEN "RejInvalid"
    ELSE IF ~dbAvail THEN "RejNoStorage"
    ELSE "Writing"

\* lines 135-139 with the title stored as the entry id
PurchaseDoc_swapped(ref, uid, ebookId, bookTitle, price) ==
    [ref |-> ref, ebookId |-> bookTitle, bookTitle |-> bookTitle,
     price |-> price, userId |-> uid]

\* line 132 keyed by the entry instead of a fresh reference
PurchaseDoc_sameRef(ref, uid, ebookId, bookTitle, price) ==
    [ref |-> 0, ebookId |-> ebookId, bookTitle |-> bookTitle,
     price |-> price, userId |-> uid]

\* lines 131-140: the document handed to setDoc, under a fresh reference
PurchaseDoc(ref, uid, ebookId, bookTitle, price) ==
    [ref |-> ref, ebookId |-> ebookId, bookTitle |-> bookTitle,
     price |-> price, userId |-> uid]

\* the notification each rejection raises (lines 107-111, 120, 125)
RejectionModal(outcome) ==
    [visible |-> TRUE,
     message |-> CASE outcome = "RejNoIdentity" -> LoginMsg
                   [] outcome = "RejInvalid" -> MissingIdMsg
                   [] outcome = "RejNoStorage" -> DbFailMsg,
     isSuccess |-> FALSE]

\* handlePurchase reachable while the loading view of lines 192-205 is shown
Purchase_whileLoading(k) ==
    /\ phase = "mounted"
    /\ Len(invs) < MaxPurchases
    /\ k \in DOMAIN books
    /\ LET b == books[k]
           n == Len(invs) + 1
           outcome == Validate(userId, b.id, db)
       IN  /\ invs' = Append(invs,
                  [uid |-> userId, ebookId |-> b.id, bookTitle |-> b.title,
                   price |-> b.price, db |-> db, state |-> outcome,
                   writes |-> IF outcome = "Writing"
                              THEN << PurchaseDoc(n, userId, b.id, b.title, b.price) >>
                              ELSE << >>,
                   error |-> NULL,
                   timer |-> IF outcome = "RejNoIdentity" THEN "pending" ELSE "none",
                   navs |-> 0])
           /\ modal' = IF outcome = "Writing" THEN modal ELSE RejectionModal(outcome)
    /\ UNCHANGED <<firebaseConfig, initialAuthToken, phase, books, auth, db,
                   userId, isAuthReady, loading, authListener, signIn, sub,
                   subLast, records, location>>

\* lines 104-140: the synchronous part of handlePurchase(book.id, book.title,
\* book.price), invoked from the card of books[k] (line 229)
Purchase(k) ==
    /\ phase = "mounted"
    /\ ~loading
    /\ Len(invs) < MaxPurchases
    /\ k \in DOMAIN books
    /\ LET b == books[k]
           n == Len(invs) + 1
           outcome == Validate(userId, b.id, db)
       IN  /\ invs' = Append(invs,
                  [uid |-> userId, ebookId |-> b.id, bookTitle |-> b.title,
                   price |-> b.price, db |-> db, state |-> outcome,
                   writes |-> IF outcome = "Writing"
                              THEN << PurchaseDoc(n, userId, b.id, b.title, b.price) >>
                              ELSE << >>,
                   error |-> NULL,
                   timer |-> IF outcome = "RejNoIdentity" THEN "pending" ELSE "none",
                   navs |-> 0])
           /\ modal' = IF outcome = "Writing" THEN modal ELSE RejectionModal(outcome)
    /\ UNCHANGED <<firebaseConfig, initialAuthToken, phase, books, auth, db,
                   userId, isAuthReady, loading, authListener, signIn, sub,
                   subLast, records, location>>

\* setDoc resolves without the document being stored
WriteOk_lost(i) ==
    /\ i \in DOMAIN invs
    /\ invs[i].state = "Writing"
    /\ invs' = [invs EXCEPT ![i].state = "Succeeded"]
    /\ modal' = [visible |-> TRUE, message |-> SuccessMsg(invs[i].bookTitle),
                 isSuccess |-> TRUE]
    /\ UNCHANGED <<firebaseConfig, initialAuthToken, phase, books, auth, db,
                   userId, isAuthReady, loading, authListener, signIn, sub,
                   subLast, records, location>>

\* lines 134-146: setDoc resolves; the document is stored, success is shown
WriteOk(i) ==
    /\ i \in DOMAIN invs
    /\ invs[i].state = "Writing"
    /\ records' = records \cup {invs[i].writes[1]}
    /\ invs' = [invs EXCEPT ![i].state = "Succeeded"]
    /\ modal' = [visible |-> TRUE, message |-> SuccessMsg(invs[i].bookTitle),
                 isSuccess |-> TRUE]
    /\ UNCHANGED <<firebaseConfig, initialAuthToken, phase, books, auth, db,
                   userId, isAuthReady, loading, authListener, signIn, sub,
                   subLast, location>>

\* the catch block with a fixed text instead of error.message
WriteFail_generic(i, errMessage) ==
    /\ i \in DOMAIN invs
    /\ invs[i].state = "Writing"
    /\ invs' = [invs EXCEPT ![i].state = "Failed", ![i].error = errMessage]
    /\ modal' = [visible |-> TRUE, message |-> << "Purchase failed" >>,
                 isSuccess |-> FALSE]
    /\ UNCHANGED <<firebaseConfig, initialAuthToken, phase, books, auth, db,
                   userId, isAuthReady, loading, authListener, signIn, sub,
                   subLast, records, location>>

\* lines 148-151: setDoc rejects with an error whose message is errMessage
WriteFail(i, errMessage) ==
    /\ i \in DOMAIN invs
    /\ invs[i].state = "Writing"
    /\ invs' = [invs EXCEPT ![i].state = "Failed", ![i].error = errMessage]
    /\ modal' = [visible |-> TRUE, message |-> FailMsg(errMessage),
                 isSuccess |-> FALSE]
    /\ UNCHANGED <<firebaseConfig, initialAuthToken, phase, books, auth, db,
                   userId, isAuthReady, loading, authListener, signIn, sub,
                   subLast, records, location>>

\* the timer callback navigating without hiding the notification
TimerFire_noHide(i) ==
    /\ i \in DOMAIN invs
    /\ invs[i].timer = "pending"
    /\ location' = "register"
    /\ invs' = [invs EXCEPT ![i].timer = "fired", ![i].navs = @ + 1]
    /\ UNCHANGED <<firebaseConfig, initialAuthToken, phase, books, auth, db,
                   userId, isAuthReady, loading, modal, authListener, signIn,
                   sub, subLast, records>>

\* lines 113-116: the setTimeout callback of invocation i; the timer is never
\* cleared, so it fires whether or not the component is still mounted
TimerFire(i) ==
    /\ i \in DOMAIN invs
    /\ invs[i].timer = "pending"
    /\ modal' = [modal EXCEPT !.visible = FALSE]           \* line 114
    /\ location' = "register"                              \* line 115
    /\ invs' = [invs EXCEPT ![i].timer = "fired", ![i].navs = @ + 1]
    /\ UNCHANGED <<firebaseConfig, initialAuthToken, phase, books, auth, db,
                   userId, isAuthReady, loading, authListener, signIn, sub,
                   subLast, records>>

\* a closing control that only hides the modal
Dismiss_hideOnly(ctl) ==
    /\ ctl \in Controls
    /\ phase = "mounted"
    /\ ~loading
    /\ modal.visible
    /\ modal' = [modal EXCEPT !.visible = FALSE]
    /\ UNCHANGED <<firebaseConfig, initialAuthToken, phase, books, auth, db,
                   userId, isAuthReady, loading, authListener, signIn, sub,
                   subLast, invs, records, location>>

\* lines 164 and 177: either closing control of the visible modal
Dismiss(ctl) ==
    /\ ctl \in Controls
    /\ phase = "mounted"
    /\ ~loading
    /\ modal.visible                                       \* line 240
    /\ modal' = EmptyModal
    /\ UNCHANGED <<firebaseConfig, initialAuthToken, phase, books, auth, db,
                   userId, isAuthReady, loading, authListener, signIn, sub,
                   subLast, invs, records, location>>

\* teardown without the cleanup of line 99
Unmount_leak ==
    /\ phase = "mounted"
    /\ phase' = "unmounted"
    /\ authListener' = FALSE
    /\ UNCHANGED <<firebaseConfig, initialAuthToken, books, auth, db, userId,
                   isAuthReady, loading, modal, signIn, sub, subLast, invs,
                   records, location>>

\* lines 76 and 99: the cleanups of both effects
Unmount ==
    /\ phase = "mounted"
    /\ phase' = "unmounted"
    /\ authListener' = FALSE                               \* line 76
    /\ sub' = IF sub = "open" THEN "closed" ELSE sub       \* line 99
    /\ UNCHANGED <<firebaseConfig, initialAuthToken, books, auth, db, userId,
                   isAuthReady, loading, modal, signIn, subLast, invs, records,
                   location>>

Next ==
    \/ Mount
    \/ SignInOk
    \/ SignInFail
    \/ \E u \in Uids \cup {NULL} : AuthEvent(u)
    \/ \E s \in Snapshots : Snapshot(s)
    \/ SubError
    \/ \E k \in 1..MaxDocs : Purchase(k)
    \/ \E i \in 1..MaxPurchases : WriteOk(i)
    \/ \E i \in 1..MaxPurchases, e \in ErrMsgs : WriteFail(i, e)
    \/ \E i \in 1..MaxPurchases : TimerFire(i)
    \/ \E ctl \in Controls : Dismiss(ctl)
    \/ Unmount

Spec == Init /\ [][Next]_vars

\* line 65: a registered identity-change listener is called with the current
\* user, so while it is registered some event is eventually delivered
FairSpec ==
    Spec /\ WF_vars(\E u \in Uids \cup {NULL} : AuthEvent(u))

----------------------------------------------------------------------------
(* Properties *)

Rejected == {"RejNoIdentity", "RejInvalid", "RejNoStorage"}
Terminal == Rejected \cup {"Succeeded", "Failed"}

\* the step is a new handlePurchase invocation
Invoked == Len(invs') = Len(invs) + 1
\* the invocation the step adds
NewInv == invs'[Len(invs')]
\* the step is the timer callback of invocation i
TimerFired(i) == invs[i].timer = "pending" /\ invs'[i].timer = "fired"
\* the records the step adds
Created == records' \ records

\* C1: every purchase record that was written carries a present userId, and
\* an invocation that observed Identity absent never attempts a write.
C1_RecordNeedsIdentity ==
    /\ \A r \in records : r.userId \in Uids
    /\ \A i \in DOMAIN invs :
          invs[i].uid = NULL => invs[i].writes = << >> /\ invs[i].state = "RejNoIdentity"

C1_Witness ==
    /\ records # {}
    /\ \E i \in DOMAIN invs : invs[i].uid = NULL /\ invs[i].state = "RejNoIdentity"

\* C2: a purchase invoked with Identity present, a non-empty id and storage
\* available whose write succeeds creates exactly one record, carrying the
\* userId observed at invocation and the id, title and price it was invoked
\* with, and then shows a success notification whose message contains the
\* title.
C2_SuccessCreatesOneRecord ==
    /\ [](\A i \in DOMAIN invs :
            invs[i].state = "Succeeded" =>
                Cardinality({r \in records : r.ref = i}) = 1)
    /\ [][\A i \in DOMAIN invs :
            (invs[i].state = "Writing" /\ invs'[i].state = "Succeeded") =>
                /\ invs[i].uid \in Uids /\ ~Falsy(invs[i].ebookId) /\ invs[i].db
                /\ Cardinality(Created) = 1
                /\ \A r \in Created :
                      /\ r.ref = i
                      /\ r.userId = invs[i].uid
                      /\ r.ebookId = invs[i].ebookId
                      /\ r.bookTitle = invs[i].bookTitle
                      /\ r.price = invs[i].price
                /\ modal'.visible /\ modal'.isSuccess
                /\ Contains(modal'.message, invs[i].bookTitle)]_vars

C2_Witness ==
    \E i \in DOMAIN invs :
        /\ invs[i].state = "Succeeded"
        /\ \E r \in records : r.ref = i /\ r.userId = "u1" /\ r.ebookId = invs[i].ebookId
        /\ userId = NULL
        /\ modal.visible /\ modal.isSuccess
        /\ Contains(modal.message, invs[i].bookTitle)

\* C3: when the write of an invocation fails, the persisted records are
\* unchanged, none of them ever stems from that invocation, and a
\* non-success notification containing the failure's message is shown.
C3_FailurePersistsNothing ==
    /\ [](\A i \in DOMAIN invs :
            invs[i].state = "Failed" => \A r \in records : r.ref # i)
    /\ [][\A i \in DOMAIN invs :
            (invs[i].state = "Writing" /\ invs'[i].state = "Failed") =>
                /\ records' = records
                /\ invs'[i].error \in ErrMsgs
                /\ modal'.visible /\ ~modal'.isSuccess
                /\ Contains(modal'.message, invs'[i].error)]_vars

C3_Witness ==
    \E i \in DOMAIN invs :
        /\ invs[i].state = "Failed"
        /\ modal = [visible |-> TRUE, message |-> FailMsg(invs[i].error),
                    isSuccess |-> FALSE]
        /\ \A r \in records : r.ref # i

\* C4: a purchase invoked with Identity absent attempts no write and shows
\* the non-success login notification at once; when its timer fires the
\* notification is hidden and the route becomes the register destination;
\* the timer is never cancelled (it stays able to fire until it has fired),
\* the invocation navigates at most once, and exactly once when its timer
\* has fired.
C4_AbsentIdentityRedirects ==
    /\ [](\A i \in DOMAIN invs :
            invs[i].uid = NULL =>
                /\ invs[i].writes = << >>
                /\ invs[i].timer \in {"pending", "fired"}
                /\ (invs[i].timer = "pending" => ENABLED TimerFire(i))
                /\ invs[i].navs = (IF invs[i].timer = "fired" THEN 1 ELSE 0)
                /\ (invs[i].timer = "fired" => location = "register"))
    /\ [][(Invoked /\ userId = NULL) =>
                /\ modal' = [visible |-> TRUE, message |-> LoginMsg, isSuccess |-> FALSE]
                /\ records' = records
                /\ NewInv.timer = "pending"]_vars
    /\ [][\A i \in DOMAIN invs :
            TimerFired(i) =>
                /\ ~modal'.visible
                /\ location' = "register"
                /\ invs'[i].navs = 1]_vars

C4_Witness ==
    \E i \in DOMAIN invs :
        /\ invs[i].uid = NULL
        /\ invs[i].timer = "fired"
        /\ invs[i].navs = 1
        /\ location = "register"
        /\ ~modal.visible
        /\ modal.message = LoginMsg

\* C5 as stated: every purchase invoked with an empty entry id performs no
\* write and ends with the non-success notification "Ebook ID is missing".
C5_Original ==
    [][(Invoked /\ Falsy(NewInv.ebookId)) =>
            /\ NewInv.writes = << >>
            /\ records' = records
            /\ modal' = [visible |-> TRUE, message |-> MissingIdMsg,
                         isSuccess |-> FALSE]]_vars

\* C5 (amended): every purchase invoked with Identity present and an empty
\* entry id performs no write and ends with the non-success notification
\* "Ebook ID is missing."
C5_MissingIdWithIdentity ==
    [][(Invoked /\ Falsy(NewInv.ebookId) /\ userId \in Uids) =>
            /\ NewInv.writes = << >>
            /\ NewInv.state = "RejInvalid"
            /\ records' = records
            /\ modal' = [visible |-> TRUE, message |-> MissingIdMsg,
                         isSuccess |-> FALSE]]_vars

C5_Witness ==
    \E i \in DOMAIN invs :
        /\ invs[i].uid \in Uids
        /\ invs[i].ebookId = ""
        /\ invs[i].state = "RejInvalid"
        /\ modal = [visible |-> TRUE, message |-> MissingIdMsg, isSuccess |-> FALSE]

\* the outcome the documented validation order assigns: Identity first, then
\* the entry id, then the storage handle
Expected(inv) ==
    IF inv.uid = NULL THEN {"RejNoIdentity"}
    ELSE IF inv.ebookId = "" THEN {"RejInvalid"}
    ELSE IF ~inv.db THEN {"RejNoStorage"}
    ELSE {"Writing", "Succeeded", "Failed"}

\* C6: the checks run in the order Identity, entry id, storage handle and the
\* first failing one alone decides the outcome and the notification; every
\* invocation is in exactly one state, a rejected one attempts no write, no
\* invocation writes twice, and a terminal state is never left.
C6_ValidationOrder ==
    /\ [](\A i \in DOMAIN invs :
            /\ invs[i].state \in Expected(invs[i])
            /\ (invs[i].state \in Rejected => invs[i].writes = << >>)
            /\ Len(invs[i].writes) <= 1
            /\ Cardinality({r \in records : r.ref = i}) <= 1)
    /\ [][Invoked =>
            /\ NewInv.uid = userId /\ NewInv.db = db
            /\ (userId = NULL =>
                    /\ modal'.message = LoginMsg
                    /\ NewInv.timer = "pending")
            /\ (userId # NULL /\ NewInv.ebookId = "" =>
                    /\ modal'.message = MissingIdMsg
                    /\ NewInv.timer = "none")
            /\ (NewInv.state \in Rejected => records' = records)]_vars
    /\ [][\A i \in DOMAIN invs :
            invs[i].state \in Terminal =>
                /\ invs'[i].state = invs[i].state
                /\ invs'[i].writes = invs[i].writes]_vars

\* Identity absent together with an empty entry id, and Identity present
\* with an empty entry id, both decided by the first failing check
C6_Witness ==
    /\ Len(invs) = 2
    /\ invs[1].uid = NULL /\ invs[1].ebookId = "" /\ invs[1].state = "RejNoIdentity"
    /\ invs[2].uid # NULL /\ invs[2].ebookId = "" /\ invs[2].state = "RejInvalid"

\* the displayed entry the claim describes for a document: the document's id
\* plus its other fields
DocumentsOf(s) ==
    /\ Len(books') = Len(s)
    /\ \A k \in DOMAIN s :
          /\ DOMAIN books'[k] = {"id"} \cup DOMAIN s[k].data
          /\ books'[k].id = s[k].id
          /\ \A f \in DOMAIN s[k].data \ {"id"} : books'[k][f] = s[k].data[f]

\* C7: after a snapshot whose documents have pairwise distinct ids (also
\* when a document's field contents contain a field named id) the displayed
\* catalog is the snapshot's documents in delivered order, each entry's id
\* its document's id, and no two displayed entries share an id.
C7_CatalogMirrorsSnapshot ==
    [][\A s \in Snapshots :
          Snapshot(s) =>
              /\ DocumentsOf(s)
              /\ \A j, k \in DOMAIN books' : j # k => books'[j].id # books'[k].id]_vars

\* C8: while the subscription has delivered no snapshot since mount, or its
\* most recent event was an error, the displayed catalog is the static
\* default set, which is non-empty; an error after snapshots reverts to it.
C8_DefaultCatalog ==
    /\ [](subLast \in {"none", "error"} =>
            books = initialBooks /\ Len(initialBooks) > 0)
    /\ [][(subLast = "snapshot" /\ subLast' = "error") =>
            books' = initialBooks]_vars

C8_Witness ==
    /\ subLast = "error"
    /\ sub = "errored"
    /\ books = initialBooks

\* the step is an explicit acknowledgment: the only step that changes the
\* notification without touching any invocation
Acknowledged == modal' # modal /\ invs' = invs

\* C9 as stated: every dismissal of a visible notification leaves the slot
\* in its empty state: invisible, message empty, isSuccess false.
C9_Original ==
    [][(modal.visible /\ ~modal'.visible) => modal' = EmptyModal]_vars

\* C9 (amended): every dismissal of a visible notification leaves it
\* invisible; an explicit acknowledgment also empties the message and clears
\* isSuccess, while the timed dismissal keeps both as they were.
C9_DismissalHides ==
    [][/\ (modal.visible /\ Acknowledged) => modal' = EmptyModal
       /\ \A i \in DOMAIN invs :
            (modal.visible /\ TimerFired(i)) =>
                modal' = [modal EXCEPT !.visible = FALSE]
       /\ (modal.visible /\ ~modal'.visible) =>
            (Acknowledged \/ \E i \in DOMAIN invs : TimerFired(i))]_vars

C9_Witness ==
    /\ ~modal.visible
    /\ modal.message = LoginMsg
    /\ \E i \in DOMAIN invs : invs[i].timer = "fired"

\* C10: with an empty configuration the mount marks readiness true with
\* Identity absent, attempts no sign-in and registers no identity listener;
\* from then on Identity stays absent, the storage handle unavailable, no
\* catalog subscription is opened, the catalog stays the default set and no
\* purchase record is written.
C10_DegradedMode ==
    (firebaseConfig = "empty" /\ phase # "init") =>
        /\ isAuthReady /\ ~loading
        /\ userId = NULL
        /\ signIn.state = "none"
        /\ ~authListener
        /\ ~db /\ ~auth
        /\ sub = "none" /\ subLast = "none"
        /\ books = initialBooks
        /\ records = {}
        /\ \A i \in DOMAIN invs : invs[i].writes = << >>

C10_Witness ==
    /\ firebaseConfig = "empty"
    /\ phase = "mounted"
    /\ isAuthReady
    /\ Len(invs) = MaxPurchases
    /\ invs[1].timer = "fired"

\* C11: Identity is owned by the identity-change listener, last write wins:
\* an identity-change event sets Identity to the event's user id (absent for
\* no user) and readiness to true, and no other step (sign-in success or
\* failure, snapshot, purchase, write completion, timer, dismissal,
\* teardown) changes Identity; after a sign-in failure Identity keeps the
\* value the listener gave it.
C11_ListenerOwnsIdentity ==
    /\ [][\A u \in Uids \cup {NULL} :
            AuthEvent(u) => userId' = u /\ isAuthReady']_vars
    /\ [][userId' # userId =>
            /\ authListener
            /\ isAuthReady'
            /\ UNCHANGED <<signIn, books, subLast, modal, invs, records,
                           location, phase>>]_vars
    /\ [](phase = "init" => userId = NULL)

C11_Witness ==
    /\ signIn.state = "failed"
    /\ isAuthReady
    /\ userId = NULL
    /\ authListener
    /\ \E i \in DOMAIN invs : invs[i].uid = "u1"

\* C12: teardown unsubscribes the identity-change listener and the catalog
\* snapshot listener: after teardown no identity-change, snapshot or
\* subscription-error event can occur, and Identity, readiness and the
\* catalog never change.
C12_TeardownUnsubscribes ==
    /\ [](phase = "unmounted" =>
            /\ ~authListener
            /\ sub # "open"
            /\ ~ENABLED (\E u \in Uids \cup {NULL} : AuthEvent(u))
            /\ ~ENABLED (\E s \in Snapshots : Snapshot(s))
            /\ ~ENABLED SubError)
    /\ [][phase = "unmounted" =>
            UNCHANGED <<userId, isAuthReady, loading, books, subLast>>]_vars

C12_Witness ==
    /\ phase = "unmounted"
    /\ sub = "closed"
    /\ subLast = "snapshot"
    /\ userId = "u1"

\* C13: a navigation timer pending at teardown is cleared: after teardown no
\* timer fires, so the route does not change to the register destination and
\* the timer updates no notification state.
C13_TimerClearedOnTeardown ==
    [][phase = "unmounted" =>
          /\ \A i \in DOMAIN invs : ~TimerFired(i)
          /\ location' = location]_vars

Succeeded == {i \in DOMAIN invs : invs[i].state = "Succeeded"}

\* C14: purchase writes are not de-duplicated and records are append-only:
\* while a write is in flight the view still accepts a purchase of any
\* displayed entry, the number of records equals the number of writes that
\* resolved successfully (so two successful purchases of the same entry leave
\* two records), and no step changes or removes an existing record.
C14_NoDeduplication ==
    /\ [](Cardinality(records) = Cardinality(Succeeded))
    /\ [](\A i \in DOMAIN invs :
            (invs[i].state = "Writing" /\ phase = "mounted" /\ Len(invs) < MaxPurchases)
                => \A k \in DOMAIN books : ENABLED Purchase(k))
    /\ [][records \subseteq records']_vars

C14_Witness ==
    /\ Len(invs) = 2
    /\ invs[1].ebookId = invs[2].ebookId
    /\ invs[1].uid = invs[2].uid
    /\ Succeeded = {1, 2}
    /\ Cardinality(records) = 2
    /\ \A r \in records : r.ebookId = invs[1].ebookId

\* C15: a notification raised by any outcome other than the unauthenticated
\* one is hidden only by explicit acknowledgment, never by the timer of an
\* earlier absent-Identity purchase.
C15_TimerHidesOnlyLoginNotice ==
    [][(modal.visible /\ modal.message # LoginMsg /\ ~modal'.visible)
            => Acknowledged]_vars

\* C16: with a non-empty configuration a mount makes exactly one sign-in
\* attempt: by token when an initial credential token is present, anonymous
\* otherwise; a settled attempt, failed or not, is never followed by
\* another one.
C16_OneSignInAttempt ==
    /\ []((firebaseConfig = "present" /\ phase # "init") =>
            /\ signIn.attempts = 1
            /\ (initialAuthToken # NULL => signIn.kind = "token")
            /\ (initialAuthToken = NULL => signIn.kind = "anonymous"))
    /\ [](phase = "init" => signIn.attempts = 0)
    /\ [][signIn.state \in {"ok", "failed"} => signIn' = signIn]_vars
    /\ [][signIn.state = "pending" =>
            /\ signIn'.kind = signIn.kind
            /\ signIn'.attempts = signIn.attempts]_vars

C16_Witness ==
    /\ firebaseConfig = "present"
    /\ initialAuthToken # NULL
    /\ signIn = [kind |-> "token", state |-> "failed", attempts |-> 1]
    /\ isAuthReady

\* C17: a catalog subscription is open only while the storage handle is
\* available and readiness is true; one is opened only when none exists, on
\* the step that makes both preconditions hold; after a subscription error
\* (or a release) no new subscription is opened.
C17_SubscriptionPreconditions ==
    /\ [](sub = "open" => db /\ isAuthReady /\ phase = "mounted")
    /\ [][(sub' = "open" /\ sub # "open") =>
            /\ sub = "none"
            /\ ~(db /\ isAuthReady)
            /\ db' /\ isAuthReady']_vars
    /\ [][(sub \in {"errored", "closed"}) => sub' = sub]_vars

C17_Witness ==
    /\ sub = "errored"
    /\ phase = "mounted"
    /\ db /\ isAuthReady
    /\ userId = "u1"
    /\ Len(invs) > 0

\* C18: with a non-empty configuration, when the identity-change listener
\* delivers its events (it is not unsubscribed by a teardown first),
\* readiness eventually becomes true and the loading state ends, whatever
\* the outcome of the sign-in attempt; once true, readiness stays true.
C18_ReadinessReached ==
    /\ (firebaseConfig = "present" /\ phase = "mounted")
          ~> ((isAuthReady /\ ~loading) \/ phase = "unmounted")
    /\ [][isAuthReady => (isAuthReady' /\ ~loading')]_vars

C18_Witness ==
    /\ firebaseConfig = "present"
    /\ signIn.state = "failed"
    /\ isAuthReady /\ ~loading
    /\ phase = "mounted"
    /\ userId = NULL
    /\ invs = << >>

\* C19: the loading indicator is shown exactly while readiness is false, and
\* while it is shown no purchase has been invoked, no notification is
\* visible and no navigation has happened: every purchase invocation,
\* notification change and navigation is a step taken with readiness true.
C19_LoadingExclusive ==
    /\ [](loading = ~isAuthReady)
    /\ [](~isAuthReady =>
            invs = << >> /\ ~modal.visible /\ modal = EmptyModal /\ location = "books")
    /\ [][(Invoked \/ modal' # modal \/ location' # location) =>
            (isAuthReady /\ ~loading /\ isAuthReady')]_vars

C19_Witness ==
    /\ isAuthReady /\ ~loading
    /\ Len(invs) = 2
    /\ invs[1].timer = "fired"
    /\ location = "register"
    /\ modal.visible

\* C20: Identity present implies the storage handle is available: the
\* handle is set no later than the identity listener is registered and is
\* never cleared; so no purchase invocation ends in Rejected(no-storage) and
\* the "Database connection failed" notification is never shown.
C20_IdentityImpliesStorage ==
    /\ [](userId # NULL => db)
    /\ [](authListener => db)
    /\ [][db => db']_vars
    /\ [](\A i \in DOMAIN invs : invs[i].state # "RejNoStorage")
    /\ [](modal.message # DbFailMsg)

C20_Witness ==
    /\ userId = "u1"
    /\ db
    /\ \E i \in DOMAIN invs :
          invs[i].uid = "u1" /\ invs[i].db /\ invs[i].state = "Succeeded"
    /\ \E i \in DOMAIN invs :
          invs[i].uid = NULL /\ invs[i].db /\ invs[i].state = "RejNoIdentity"

====
